---- MODULE Spec2Model ----
(***************************************************************************)
(* Model of text-verb-extractor: TextExtractor (OCR variant selection,     *)
(* text cleanup, the module-level tesseract command), VerbAnalyzer (verb   *)
(* extraction and categorisation) and the utils that consume its result.   *)
(*                                                                         *)
(* Strings are sequences of one-character strings, so that split, strip,   *)
(* lower and endswith are computed character by character.                 *)
(***************************************************************************)
EXTENDS Integers, Sequences, FiniteSets, TLC

VARIABLES
    \* TextExtractor.clean_text: the raw text, the result of cleaning it,
    \* the result of cleaning that result, and how far the two calls got
    raw, cleaned, recleaned, cpc,
    \* pytesseract.pytesseract.tesseract_cmd, an attribute of the imported
    \* module: one value for the whole process
    tesseract_cmd,
    \* the tesseract_cmd argument each TextExtractor object was built with
    constructed,
    \* the extract_text call in progress or last made: where it is, the
    \* object it was called on, its preprocess flag, the local
    \* extraction_results, what it returned or raised, and what it did
    pc, caller, preprocess, extraction_results,
    ret_text, ret_details, raised, orig_error, attempts, log,
    \* VerbAnalyzer.extract_verbs and the steps that consume its result: the
    \* text (a sequence of tokens), the tagger's model, the returned record,
    \* what save_results returned, the panels create_visualization drew, the
    \* error it raised, and how far the pipeline got
    text, tagger, results, saved, figure, viz_error, vpc,
    \* VerbAnalyzer.get_verb_categories: its argument, its result, and
    \* whether it ran
    verb_list, categories, kpc

cleanVars == <<raw, cleaned, recleaned, cpc>>

callVars == <<pc, caller, preprocess, extraction_results,
              ret_text, ret_details, raised, orig_error, attempts, log>>

ocrVars == <<tesseract_cmd, constructed, pc, caller, preprocess, extraction_results,
             ret_text, ret_details, raised, orig_error, attempts, log>>

verbVars == <<text, tagger, results, saved, figure, viz_error, vpc>>

catVars == <<verb_list, categories, kpc>>

vars == <<raw, cleaned, recleaned, cpc,
          tesseract_cmd, constructed, pc, caller, preprocess, extraction_results,
          ret_text, ret_details, raised, orig_error, attempts, log,
          text, tagger, results, saved, figure, viz_error, vpc,
          verb_list, categories, kpc>>

----------------------------------------------------------------------------
(* Bounds of the model *)

\* longest raw text handed to clean_text
MaxLen == 5

\* longest text the OCR engine returns for one image
MaxOcrLen == 1

\* longest list of verbs handed to get_verb_categories on its own
MaxVerbs == 2

\* most tokens in a text handed to extract_verbs
MaxTokens == 4

----------------------------------------------------------------------------
(* Characters and Python's str primitives *)

\* str.isspace / regex \s
Whitespace == {" ", "\n", "\t"}

\* regex \w (letters, digits, underscore): the letters the model uses
UpperCase == <<"A","B","C","D","E","F","G","H","I","J","K","L","M",
               "N","O","P","Q","R","S","T","U","V","W","X","Y","Z">>

LowerCase == <<"a","b","c","d","e","f","g","h","i","j","k","l","m",
               "n","o","p","q","r","s","t","u","v","w","x","y","z">>

WordChars == {UpperCase[i] : i \in 1..26} \cup {LowerCase[i] : i \in 1..26} \cup {"_"}

\* the punctuation kept by the character class of clean_text
KeptPunctuation == {".", ",", "!", "?", "-", ":", ";", "'", "\"", "(", ")"}

IsSpace(c) == c \in Whitespace

\* the class [\w\s.,!?\-:;'"()] : a character that re.sub does not remove
Allowed(c) == c \in WordChars \/ c \in Whitespace \/ c \in KeptPunctuation

\* all strings over alphabet A of length at most n
Strings(A, n) == UNION {[1..k -> A] : k \in 0..n}

\* str.lstrip()
RECURSIVE LStrip(_)
LStrip(s) == IF s # <<>> /\ IsSpace(Head(s)) THEN LStrip(Tail(s)) ELSE s

\* str.rstrip()
RECURSIVE RStrip(_)
RStrip(s) == IF s # <<>> /\ IsSpace(s[Len(s)])
             THEN RStrip(SubSeq(s, 1, Len(s) - 1)) ELSE s

\* str.strip()
Strip(s) == RStrip(LStrip(s))

\* str.split(): the maximal runs of non-whitespace characters, in order
RECURSIVE SplitFrom(_, _, _)
SplitFrom(s, cur, acc) ==
    IF s = <<>> THEN (IF cur = <<>> THEN acc ELSE Append(acc, cur))
    ELSE IF IsSpace(Head(s))
         THEN SplitFrom(Tail(s), <<>>, IF cur = <<>> THEN acc ELSE Append(acc, cur))
         ELSE SplitFrom(Tail(s), Append(cur, Head(s)), acc)

Split(s) == SplitFrom(s, <<>>, <<>>)

\* ' '.join(parts)
RECURSIVE JoinSpace(_)
JoinSpace(parts) ==
    IF parts = <<>> THEN <<>>
    ELSE IF Len(parts) = 1 THEN parts[1]
    ELSE parts[1] \o <<" ">> \o JoinSpace(Tail(parts))

\* re.sub(r'[^\w\s.,!?\-:;\'"()]', '', text)
RemoveSpecial(s) == SelectSeq(s, Allowed)

\* (mutant of CollapseSpace) the third pass of clean_text left out
CollapseSpaceSkipped(s) == s

\* re.sub(r'\s+', ' ', text): each maximal whitespace run becomes one space
RECURSIVE CollapseSpace(_)
CollapseSpace(s) ==
    IF s = <<>> THEN <<>>
    ELSE IF IsSpace(Head(s))
         THEN <<" ">> \o CollapseSpace(LStrip(s))
         ELSE <<Head(s)>> \o CollapseSpace(Tail(s))

\* TextExtractor.clean_text
clean_text(s) ==
    LET joined   == JoinSpace(Split(s))
        kept     == RemoveSpecial(joined)
        squeezed == CollapseSpace(kept)
    IN  Strip(squeezed)

----------------------------------------------------------------------------
(* TextExtractor.clean_text applied to a text, then to its own result *)

\* an allowed letter, allowed punctuation, a removed character, two whitespaces
CleanAlphabet == {"a", ".", "#", " ", "\n"}

\* cleaned = extractor.clean_text(raw)
CleanText ==
    /\ cpc = "raw"
    /\ cleaned' = clean_text(raw)
    /\ cpc' = "cleaned"
    /\ UNCHANGED <<raw, recleaned, ocrVars, verbVars, catVars>>

\* extractor.clean_text(cleaned)
CleanAgain ==
    /\ cpc = "cleaned"
    /\ recleaned' = clean_text(cleaned)
    /\ cpc' = "recleaned"
    /\ UNCHANGED <<raw, cleaned, ocrVars, verbVars, catVars>>

----------------------------------------------------------------------------
(* TextExtractor: construction, preprocess_image, extract_text *)

\* the two TextExtractor objects of the model
InstanceIds == {"ex1", "ex2"}

\* pytesseract's own default for tesseract_cmd
DefaultCmd == "tesseract"

\* values passed as the tesseract_cmd override
OverrideCmds == {"/opt/a/tesseract", "/opt/b/tesseract"}

\* the texts the OCR engine may return: a letter and a space, so that the
\* stripped length differs from the length
OcrTexts == Strings({"a", " "}, MaxOcrLen)

\* the keys of processed_images in insertion order, which is the order
\* dict.items() yields them in
Methods == <<"simple_threshold", "adaptive_threshold", "otsu_threshold", "gaussian_otsu">>

NoDetails == [best_method |-> "", all_methods |-> <<>>, preprocessed |-> FALSE]

\* (mutant of Reraise) the handler raises a new error in place of the caught one
ReraiseWrapped(e) == "RuntimeError"

\* `except Exception as e: logger.error(...); raise`: the caught error goes on
Reraise(e) == e

\* preprocess_image: the four thresholded images, or the error of an image
\* that cv2.imread could not read (it returns None)
preprocess_image(readable) ==
    IF ~readable
    THEN [ok |-> FALSE, images |-> <<>>, thrown |-> "ValueError",
          error |-> Reraise("ValueError"), log |-> <<"Error preprocessing image">>]
    ELSE [ok |-> TRUE, images |-> Methods, thrown |-> "none",
          error |-> "none", log |-> <<>>]

\* (mutant of MaxScan) a later method replaces the best one on a tie
RECURSIVE MaxScanLastWins(_, _, _)
MaxScanLastWins(entries, i, best) ==
    IF i > Len(entries) THEN best
    ELSE MaxScanLastWins(entries, i + 1,
                 IF entries[i].length >= entries[best].length THEN i ELSE best)

\* max(extraction_results.keys(), key=...): the scan of Python's max, which
\* keeps the first of the greatest keys
RECURSIVE MaxScan(_, _, _)
MaxScan(entries, i, best) ==
    IF i > Len(entries) THEN best
    ELSE MaxScan(entries, i + 1,
                 IF entries[i].length > entries[best].length THEN i ELSE best)

\* one entry of extraction_results
ResultEntry(method, ocr_text) ==
    [method |-> method, text |-> ocr_text, length |-> Len(Strip(ocr_text))]

\* what a call on object i hands to the OCR engine as its executable:
\* image_to_string reads the module attribute, the object holds nothing
CmdUsedBy(i) == tesseract_cmd

\* TextExtractor(tesseract_cmd=cmd), each object built once, between calls;
\* "None" is the default argument
Construct(i, cmd) ==
    /\ pc \in {"idle", "done", "error"}
    /\ constructed[i] = "unconstructed"
    /\ constructed' = [constructed EXCEPT ![i] = cmd]
    /\ tesseract_cmd' = IF cmd # "None" THEN cmd ELSE tesseract_cmd
    /\ UNCHANGED <<callVars, cleanVars, verbVars, catVars>>

\* the call fails: `thrown` was raised in the body, `caught` reaches the
\* handler of extract_text, which logs it and re-raises it
Fail(thrown, caught, logged) ==
    /\ pc' = "error"
    /\ orig_error' = thrown
    /\ raised' = Reraise(caught)
    /\ log' = logged \o <<"Error extracting text">>
    /\ ret_text' = <<>>
    /\ ret_details' = NoDetails

\* extract_text(image_path, preprocess) up to its first OCR call: with
\* preprocess, preprocess_image; without, Image.open
StartExtract(i, pre, readable) ==
    /\ pc \in {"idle", "done", "error"}
    /\ constructed[i] # "unconstructed"
    /\ caller' = i
    /\ preprocess' = pre
    /\ extraction_results' = <<>>
    /\ attempts' = <<>>
    /\ UNCHANGED <<tesseract_cmd, constructed, cleanVars, verbVars, catVars>>
    /\ IF pre
       THEN LET r == preprocess_image(readable)
            IN  IF r.ok
                THEN /\ pc' = "ocr"
                     /\ ret_text' = <<>>
                     /\ ret_details' = NoDetails
                     /\ raised' = "none"
                     /\ orig_error' = "none"
                     /\ log' = <<>>
                ELSE Fail(r.thrown, r.error, r.log)
       ELSE IF readable
            THEN /\ pc' = "ocr_simple"
                 /\ ret_text' = <<>>
                 /\ ret_details' = NoDetails
                 /\ raised' = "none"
                 /\ orig_error' = "none"
                 /\ log' = <<>>
            ELSE Fail("OpenError", "OpenError", <<>>)

\* one pass of the loop over processed_images: the OCR call returns text
OcrVariant(ocr_text) ==
    /\ pc = "ocr"
    /\ LET method  == Methods[Len(extraction_results) + 1]
           entries == Append(extraction_results, ResultEntry(method, ocr_text))
       IN  /\ attempts' = Append(attempts, [method |-> method, cmd |-> CmdUsedBy(caller)])
           /\ extraction_results' = entries
           /\ IF Len(entries) < Len(Methods)
              THEN /\ pc' = "ocr"
                   /\ UNCHANGED <<ret_text, ret_details>>
              ELSE LET best == MaxScan(entries, 2, 1)
                   IN  /\ pc' = "done"
                       /\ ret_text' = entries[best].text
                       /\ ret_details' = [best_method |-> entries[best].method,
                                          all_methods |-> entries,
                                          preprocessed |-> TRUE]
    /\ UNCHANGED <<tesseract_cmd, constructed, caller, preprocess, raised, orig_error, log,
                   cleanVars, verbVars, catVars>>

\* (mutant of OcrVariantFails) the failed variant is skipped and the call
\* goes on to return what it has
OcrVariantFailsSwallowed ==
    /\ pc = "ocr"
    /\ attempts' = Append(attempts, [method |-> Methods[Len(extraction_results) + 1],
                                     cmd |-> CmdUsedBy(caller)])
    /\ orig_error' = "TesseractError"
    /\ pc' = "done"
    /\ ret_text' = <<>>
    /\ ret_details' = [best_method |-> "", all_methods |-> extraction_results,
                       preprocessed |-> TRUE]
    /\ UNCHANGED <<tesseract_cmd, constructed, caller, preprocess, extraction_results,
                   raised, log, cleanVars, verbVars, catVars>>

\* one pass of the loop: the OCR call raises
OcrVariantFails ==
    /\ pc = "ocr"
    /\ attempts' = Append(attempts, [method |-> Methods[Len(extraction_results) + 1],
                                     cmd |-> CmdUsedBy(caller)])
    /\ Fail("TesseractError", "TesseractError", <<>>)
    /\ UNCHANGED <<tesseract_cmd, constructed, caller, preprocess, extraction_results,
                   cleanVars, verbVars, catVars>>

\* preprocess=False: the one OCR call on the opened image returns text
OcrSimple(ocr_text) ==
    /\ pc = "ocr_simple"
    /\ attempts' = Append(attempts, [method |-> "simple", cmd |-> CmdUsedBy(caller)])
    /\ pc' = "done"
    /\ ret_text' = ocr_text
    /\ ret_details' = [best_method |-> "simple",
                       all_methods |-> <<ResultEntry("simple", ocr_text)>>,
                       preprocessed |-> FALSE]
    /\ UNCHANGED <<tesseract_cmd, constructed, caller, preprocess, extraction_results,
                   raised, orig_error, log, cleanVars, verbVars, catVars>>

\* preprocess=False: the one OCR call raises
OcrSimpleFails ==
    /\ pc = "ocr_simple"
    /\ attempts' = Append(attempts, [method |-> "simple", cmd |-> CmdUsedBy(caller)])
    /\ Fail("TesseractError", "TesseractError", <<>>)
    /\ UNCHANGED <<tesseract_cmd, constructed, caller, preprocess, extraction_results,
                   cleanVars, verbVars, catVars>>

NextOcr ==
    \/ \E i \in InstanceIds, cmd \in OverrideCmds \cup {"None"} : Construct(i, cmd)
    \/ \E i \in InstanceIds, pre \in BOOLEAN, readable \in BOOLEAN : StartExtract(i, pre, readable)
    \/ \E ocr_text \in OcrTexts : OcrVariant(ocr_text)
    \/ OcrVariantFails
    \/ \E ocr_text \in OcrTexts : OcrSimple(ocr_text)
    \/ OcrSimpleFails

----------------------------------------------------------------------------
(* VerbAnalyzer.get_verb_categories *)

\* str.lower(), on the letters A-Z
LowerChar(c) ==
    IF \E i \in 1..26 : UpperCase[i] = c
    THEN LowerCase[CHOOSE i \in 1..26 : UpperCase[i] = c]
    ELSE c

Lower(w) == [i \in 1..Len(w) |-> LowerChar(w[i])]

\* str.endswith(suffix)
EndsWith(w, suffix) ==
    /\ Len(w) >= Len(suffix)
    /\ SubSeq(w, Len(w) - Len(suffix) + 1, Len(w)) = suffix

\* the keys of the categories dict
CategoryNames == {"action_verbs", "linking_verbs", "helping_verbs",
                  "irregular_verbs", "regular_verbs"}

linking_verbs == {
    <<"i","s">>, <<"a","m">>, <<"a","r","e">>, <<"w","a","s">>,
    <<"w","e","r","e">>, <<"b","e">>, <<"b","e","i","n","g">>,
    <<"b","e","e","n">>, <<"s","e","e","m">>, <<"a","p","p","e","a","r">>,
    <<"b","e","c","o","m","e">>, <<"g","r","o","w">>, <<"t","u","r","n">>,
    <<"l","o","o","k">>, <<"f","e","e","l">>, <<"s","m","e","l","l">>,
    <<"s","o","u","n","d">>, <<"t","a","s","t","e">>}

helping_verbs == {
    <<"h","a","v","e">>, <<"h","a","s">>, <<"h","a","d">>, <<"d","o">>,
    <<"d","o","e","s">>, <<"d","i","d">>, <<"w","i","l","l">>,
    <<"w","o","u","l","d">>, <<"s","h","a","l","l">>,
    <<"s","h","o","u","l","d">>, <<"m","a","y">>, <<"m","i","g","h","t">>,
    <<"m","u","s","t">>, <<"c","a","n">>, <<"c","o","u","l","d">>}

SuffixIng == <<"i","n","g">>

SuffixEd == <<"e","d">>

\* (mutant of CategoryOf) the suffix tests made before the two lookups
CategoryOfSuffixFirst(verb) ==
    IF EndsWith(verb, SuffixIng) THEN "action_verbs"
    ELSE IF EndsWith(verb, SuffixEd) /\ Len(verb) > 2 THEN "regular_verbs"
    ELSE IF Lower(verb) \in linking_verbs THEN "linking_verbs"
    ELSE IF Lower(verb) \in helping_verbs THEN "helping_verbs"
    ELSE "irregular_verbs"

\* the if/elif chain of the loop body: the list the verb is appended to
CategoryOf(verb) ==
    IF Lower(verb) \in linking_verbs THEN "linking_verbs"
    ELSE IF Lower(verb) \in helping_verbs THEN "helping_verbs"
    ELSE IF EndsWith(verb, SuffixIng) THEN "action_verbs"
    ELSE IF EndsWith(verb, SuffixEd) /\ Len(verb) > 2 THEN "regular_verbs"
    ELSE "irregular_verbs"

\* (mutant of Place) the "-ing" test written as an `if` of its own, not as
\* an `elif` of the lookups
PlaceSecondIf(cats, verb) ==
    LET first == [cats EXCEPT ![CategoryOf(verb)] = Append(@, verb)]
    IN  IF EndsWith(verb, SuffixIng) /\ CategoryOf(verb) # "action_verbs"
        THEN [first EXCEPT !["action_verbs"] = Append(@, verb)]
        ELSE first

\* one pass of the loop: the verb, as given, is appended to one list
Place(cats, verb) == [cats EXCEPT ![CategoryOf(verb)] = Append(@, verb)]

RECURSIVE PlaceAll(_, _)
PlaceAll(cats, verbs) ==
    IF verbs = <<>> THEN cats
    ELSE PlaceAll(Place(cats, Head(verbs)), Tail(verbs))

get_verb_categories(verbs) == PlaceAll([c \in CategoryNames |-> <<>>], verbs)

\* verbs handed to get_verb_categories: of every category, with and without
\* capitals, members of a fixed set that carry a suffix, the bare suffixes
SampleVerbs == {
    <<"i","s">>, <<"I","s">>, <<"b","e","i","n","g">>,
    <<"B","e","i","n","g">>, <<"w","a","s">>, <<"h","a","s">>,
    <<"h","a","d">>, <<"D","i","d">>, <<"r","u","n","n","i","n","g">>,
    <<"R","U","N","N","I","N","G">>, <<"i","n","g">>,
    <<"w","a","l","k","e","d">>, <<"W","A","L","K","E","D">>, <<"e","d">>,
    <<"n","e","e","d">>, <<"d","r","e","a","m","s">>, <<"g","o">>, <<>>}

\* lists of at most n elements of S
Lists(S, n) == UNION {[1..k -> S] : k \in 0..n}

NoCategories == [c \in {} |-> <<>>]

\* categories = analyzer.get_verb_categories(verb_list)
Categorize ==
    /\ kpc = "ready"
    /\ categories' = get_verb_categories(verb_list)
    /\ kpc' = "done"
    /\ UNCHANGED <<verb_list, cleanVars, ocrVars, verbVars>>

NextCats == Categorize
----------------------------------------------------------------------------
(* VerbAnalyzer.extract_verbs *)

\* The text is the sequence of its tokens. Two word forms that lower() maps to
\* the same verb, and the sentence-ending period.
WordRun == <<"R","u","n">>

WordRunLower == <<"r","u","n">>

Period == <<".">>

Vocabulary == {WordRun, WordRunLower, Period}

\* the context of the first word handed to the tagger
NoWord == <<>>

\* The tagger is any function of a word and the word given before it: the
\* (previous word, word) pairs it tags as a verb. A period is never a verb.
Contexts == (Vocabulary \cup {NoWord}) \X (Vocabulary \ {Period})

\* sent_tokenize: a sentence ends with each period; what follows the last
\* period is a sentence too
RECURSIVE SentFrom(_, _, _)
SentFrom(t, cur, acc) ==
    IF t = <<>> THEN (IF cur = <<>> THEN acc ELSE Append(acc, cur))
    ELSE IF Head(t) = Period
         THEN SentFrom(Tail(t), <<>>, Append(acc, Append(cur, Period)))
         ELSE SentFrom(Tail(t), Append(cur, Head(t)), acc)

sent_tokenize(t) == SentFrom(t, <<>>, <<>>)

RECURSIVE Flatten(_)
Flatten(seqs) == IF seqs = <<>> THEN <<>> ELSE Head(seqs) \o Flatten(Tail(seqs))

\* word_tokenize: the words of each sentence of its argument, in order
word_tokenize(t) == Flatten(sent_tokenize(t))

\* pos_tag(words, tagset='universal'): each word tagged in the context of
\* the words it is handed with
pos_tag(words) ==
    [i \in 1..Len(words) |->
        LET prev == IF i = 1 THEN NoWord ELSE words[i - 1]
        IN  [word |-> words[i],
             tag  |-> IF words[i] = Period THEN "."
                      ELSE IF <<prev, words[i]>> \in tagger THEN "VERB"
                      ELSE "NOUN"]]

\* (mutant of StartsWithV) every tag but the noun's taken as a verb's
NotStartsWithN(tag) == tag # "NOUN"

\* tag.startswith('V'): of the universal tagset, VERB
StartsWithV(tag) == tag = "VERB"

\* [word.lower() for word, tag in tagged if tag.startswith('V')]
RECURSIVE VerbsOf(_)
VerbsOf(tagged) ==
    IF tagged = <<>> THEN <<>>
    ELSE (IF StartsWithV(Head(tagged).tag) THEN <<Lower(Head(tagged).word)>> ELSE <<>>)
         \o VerbsOf(Tail(tagged))

\* Counter(verbs): the counts, in the order the verbs were first seen
RECURSIVE Counter(_, _)
Counter(verbs, acc) ==
    IF verbs = <<>> THEN acc
    ELSE LET v == Head(verbs)
         IN  IF \E i \in 1..Len(acc) : acc[i].verb = v
             THEN Counter(Tail(verbs),
                          [i \in 1..Len(acc) |->
                              IF acc[i].verb = v
                              THEN [verb |-> v, count |-> acc[i].count + 1]
                              ELSE acc[i]])
             ELSE Counter(Tail(verbs), Append(acc, [verb |-> v, count |-> 1]))

RECURSIVE SumCounts(_)
SumCounts(counts) ==
    IF counts = <<>> THEN 0 ELSE Head(counts).count + SumCounts(Tail(counts))

\* sorted(..., key=count, reverse=True): stable, so equal counts keep their order
RECURSIVE InsertDesc(_, _)
InsertDesc(sorted, e) ==
    IF sorted = <<>> THEN <<e>>
    ELSE IF Head(sorted).count >= e.count
         THEN <<Head(sorted)>> \o InsertDesc(Tail(sorted), e)
         ELSE <<e>> \o sorted

RECURSIVE SortDesc(_, _)
SortDesc(counts, acc) ==
    IF counts = <<>> THEN acc ELSE SortDesc(Tail(counts), InsertDesc(acc, Head(counts)))

\* the argument of verb_counts.most_common(10)
MostCommonN == 10

most_common(counts, n) ==
    LET sorted == SortDesc(counts, <<>>)
    IN  SubSeq(sorted, 1, IF Len(sorted) < n THEN Len(sorted) ELSE n)

\* the loop over sentences: each sentence tokenized and tagged on its own
analyze_sentences(sentences) ==
    [i \in 1..Len(sentences) |->
        LET sent_words  == word_tokenize(sentences[i])
            sent_tagged == pos_tag(sent_words)
            sent_verbs  == VerbsOf(sent_tagged)
        IN  [sentence_number |-> i,
             sentence        |-> sentences[i],
             verbs           |-> sent_verbs,
             verb_count      |-> Len(sent_verbs)]]

\* (mutant of WithVerbs) a sentence counted only from its second verb on
WithVerbsOffByOne(sentence_analysis) ==
    Cardinality({i \in 1..Len(sentence_analysis) : sentence_analysis[i].verb_count > 1})

\* sum(1 for s in sentence_analysis if s["verb_count"] > 0)
WithVerbs(sentence_analysis) ==
    Cardinality({i \in 1..Len(sentence_analysis) : sentence_analysis[i].verb_count > 0})

\* sum(1 for s in sentence_analysis if s["verb_count"] == 0)
WithoutVerbs(sentence_analysis) ==
    Cardinality({i \in 1..Len(sentence_analysis) : sentence_analysis[i].verb_count = 0})

\* sum(verb_counts.values())
TotalInstances(verb_counts) == SumCounts(verb_counts)

\* VerbAnalyzer.extract_verbs: the record it returns
extract_verbs(t) ==
    LET sentences         == sent_tokenize(t)
        words             == word_tokenize(t)
        tagged_words      == pos_tag(words)
        verbs             == VerbsOf(tagged_words)
        verb_counts       == Counter(verbs, <<>>)
        sentence_analysis == analyze_sentences(sentences)
        unique_verbs      == [i \in 1..Len(verb_counts) |-> verb_counts[i].verb]
    IN  [text                    |-> t,
         sentences               |-> sentences,
         total_words             |-> Len(words),
         total_sentences         |-> Len(sentences),
         verbs                   |-> unique_verbs,
         verb_counts             |-> verb_counts,
         total_unique_verbs      |-> Len(unique_verbs),
         total_verb_instances    |-> TotalInstances(verb_counts),
         sentence_analysis       |-> sentence_analysis,
         sentences_with_verbs    |-> WithVerbs(sentence_analysis),
         sentences_without_verbs |-> WithoutVerbs(sentence_analysis),
         most_common_verbs       |-> most_common(verb_counts, MostCommonN)]

NoResults ==
    [text |-> <<>>, sentences |-> <<>>, total_words |-> 0, total_sentences |-> 0,
     verbs |-> <<>>, verb_counts |-> <<>>, total_unique_verbs |-> 0,
     total_verb_instances |-> 0, sentence_analysis |-> <<>>,
     sentences_with_verbs |-> 0, sentences_without_verbs |-> 0,
     most_common_verbs |-> <<>>]

----------------------------------------------------------------------------
(* utils.save_results and utils.create_visualization *)

NoSaved == [json |-> "", txt |-> "", csv |-> "", txt_lines |-> <<>>]

\* save_results: the three files written (the timestamp in their names left
\* out) and the lines of the verb list, by descending count
save_results(r) ==
    [json      |-> "analysis.json",
     txt       |-> "verbs.txt",
     csv       |-> "sentences.csv",
     txt_lines |-> SortDesc(r.verb_counts, <<>>)]

\* the most slices the verb-distribution pie shows before "Others"
PieSlices == 10

\* create_visualization: the panels drawn, in order, and the error raised.
\* `verbs, counts = zip(*results['most_common_verbs'])` unpacks into two
\* names, and zip of nothing yields nothing to unpack: ValueError, before
\* any panel is drawn.
create_visualization(r) ==
    IF r.most_common_verbs = <<>>
    THEN [panels |-> <<>>, error |-> "ValueError"]
    ELSE [panels |->
            << [panel |-> "top_verbs", items |-> Len(r.most_common_verbs)],
               [panel |-> "sentences", items |-> 2],
               [panel |-> "verb_distribution",
                items |-> IF Len(r.verb_counts) <= PieSlices
                          THEN Len(r.verb_counts) ELSE PieSlices + 1],
               [panel |-> "text_statistics", items |-> 4] >>,
          error |-> "none"]

----------------------------------------------------------------------------
(* The pipeline over one text: analyse, categorise, save, visualise *)

\* results = analyzer.extract_verbs(text)
ExtractVerbs ==
    /\ vpc = "text"
    /\ results' = extract_verbs(text)
    /\ vpc' = "analyzed"
    /\ UNCHANGED <<text, tagger, saved, figure, viz_error, cleanVars, ocrVars, catVars>>

\* categories = analyzer.get_verb_categories(results['verbs'])
CategorizeResults ==
    /\ vpc = "analyzed"
    /\ verb_list' = results.verbs
    /\ categories' = get_verb_categories(results.verbs)
    /\ kpc' = "done"
    /\ vpc' = "categorized"
    /\ UNCHANGED <<text, tagger, results, saved, figure, viz_error, cleanVars, ocrVars>>

\* save_results(results)
SaveResults ==
    /\ vpc = "categorized"
    /\ saved' = save_results(results)
    /\ vpc' = "saved"
    /\ UNCHANGED <<text, tagger, results, figure, viz_error, cleanVars, ocrVars, catVars>>

\* create_visualization(results, save_path)
CreateVisualization ==
    /\ vpc = "saved"
    /\ LET drawn == create_visualization(results)
       IN  /\ figure' = drawn.panels
           /\ viz_error' = drawn.error
           /\ vpc' = IF drawn.error = "none" THEN "visualized" ELSE "failed"
    /\ UNCHANGED <<text, tagger, results, saved, cleanVars, ocrVars, catVars>>

NextVerbs == ExtractVerbs \/ CategorizeResults \/ SaveResults \/ CreateVisualization

----------------------------------------------------------------------------
(* Specifications *)

\* The state before any operation. `run` names the part of the program the
\* run exercises; its inputs are drawn here, and the other parts stay idle.
\* No TextExtractor exists yet and pytesseract holds its default command.
Start(run) ==
    /\ raw \in (IF run = "clean" THEN Strings(CleanAlphabet, MaxLen) ELSE {<<>>})
    /\ cleaned = <<>>
    /\ recleaned = <<>>
    /\ cpc = (IF run = "clean" THEN "raw" ELSE "idle")
    /\ tesseract_cmd = DefaultCmd
    /\ constructed = [i \in InstanceIds |-> "unconstructed"]
    /\ pc = "idle"
    /\ caller = "none"
    /\ preprocess = FALSE
    /\ extraction_results = <<>>
    /\ ret_text = <<>>
    /\ ret_details = NoDetails
    /\ raised = "none"
    /\ orig_error = "none"
    /\ attempts = <<>>
    /\ log = <<>>
    /\ text \in (IF run = "verbs" THEN Lists(Vocabulary, MaxTokens) ELSE {<<>>})
    /\ tagger \in (IF run = "verbs" THEN SUBSET Contexts ELSE {{}})
    /\ results = NoResults
    /\ saved = NoSaved
    /\ figure = <<>>
    /\ viz_error = "none"
    /\ vpc = (IF run = "verbs" THEN "text" ELSE "idle")
    /\ verb_list \in (IF run = "cats" THEN Lists(SampleVerbs, MaxVerbs) ELSE {<<>>})
    /\ categories = NoCategories
    /\ kpc = (IF run = "cats" THEN "ready" ELSE "idle")

NextClean == CleanText \/ CleanAgain

\* clean_text applied to a text, then to its own result
SpecClean == Start("clean") /\ [][NextClean]_vars

\* TextExtractor objects built and extract_text called on them, one call at a time
SpecOcr == Start("ocr") /\ [][NextOcr]_vars

\* get_verb_categories called on a list of verbs
SpecCats == Start("cats") /\ [][NextCats]_vars

\* one text taken through extract_verbs and the steps that consume its result
SpecVerbs == Start("verbs") /\ [][NextVerbs]_vars

----------------------------------------------------------------------------
(* C1 *)

Analyzed == vpc \in {"analyzed", "categorized", "saved", "visualized", "failed"}

RECURSIVE SumVerbCount(_)
SumVerbCount(sentence_analysis) ==
    IF sentence_analysis = <<>> THEN 0
    ELSE Head(sentence_analysis).verb_count + SumVerbCount(Tail(sentence_analysis))

\* C1: in the result of extract_verbs, the verb_count of the sentences sum to
\* total_verb_instances, whatever the tagger does with a word's neighbours.
SentenceCountsSumToTotal ==
    Analyzed => SumVerbCount(results.sentence_analysis) = results.total_verb_instances

----------------------------------------------------------------------------
(* C2 *)

\* C2: sentences_with_verbs + sentences_without_verbs = total_sentences, and
\* total_sentences is the number of entries of sentence_analysis.
SentencesPartition ==
    Analyzed =>
        /\ results.sentences_with_verbs + results.sentences_without_verbs
               = results.total_sentences
        /\ results.total_sentences = Len(results.sentence_analysis)

\* a text with a sentence that has a verb and a sentence that has none
SentencesPartitionWitness ==
    /\ Analyzed
    /\ results.sentences_with_verbs >= 1
    /\ results.sentences_without_verbs >= 1

----------------------------------------------------------------------------
(* C3 *)

Occurs(v, list) == \E j \in 1..Len(list) : list[j] = v

InFixedSet(v) == Lower(v) \in linking_verbs \/ Lower(v) \in helping_verbs

MatchesIng(v) == EndsWith(v, SuffixIng)

MatchesEd(v) == EndsWith(v, SuffixEd) /\ Len(v) > 2

\* C3: every verb handed to get_verb_categories is in exactly one of the five
\* lists, no list holds a word that was not handed in, and a verb that is in
\* neither fixed set and matches neither suffix rule is in irregular_verbs.
ExactlyOneCategory ==
    kpc = "done" =>
        /\ DOMAIN categories = CategoryNames
        /\ \A i \in 1..Len(verb_list) :
               Cardinality({c \in CategoryNames : Occurs(verb_list[i], categories[c])}) = 1
        /\ \A c \in CategoryNames : \A j \in 1..Len(categories[c]) :
               Occurs(categories[c][j], verb_list)
        /\ \A i \in 1..Len(verb_list) :
               LET v == verb_list[i]
               IN  (~InFixedSet(v) /\ ~MatchesIng(v) /\ ~MatchesEd(v))
                       => Occurs(v, categories["irregular_verbs"])

\* "being" (in the linking set, ending in "ing") and "dreams" (outside every
\* rule) were categorised together
ExactlyOneCategoryWitness ==
    /\ kpc = "done"
    /\ verb_list = << <<"b","e","i","n","g">>, <<"d","r","e","a","m","s">> >>
    /\ Occurs(<<"d","r","e","a","m","s">>, categories["irregular_verbs"])

----------------------------------------------------------------------------
(* C4 *)

\* C4 as stated: the suffix rules apply to every verb, the words of the fixed
\* sets that carry a suffix included; the fixed sets decide the others.
SuffixRulesFirst ==
    kpc = "done" =>
        \A i \in 1..Len(verb_list) :
            LET v == verb_list[i]
            IN  /\ MatchesIng(v) => Occurs(v, categories["action_verbs"])
                /\ (~MatchesIng(v) /\ MatchesEd(v)) => Occurs(v, categories["regular_verbs"])
                /\ (~MatchesIng(v) /\ ~MatchesEd(v) /\ Lower(v) \in linking_verbs)
                       => Occurs(v, categories["linking_verbs"])
                /\ (~MatchesIng(v) /\ ~MatchesEd(v) /\ Lower(v) \notin linking_verbs
                        /\ Lower(v) \in helping_verbs)
                       => Occurs(v, categories["helping_verbs"])
                /\ (~MatchesIng(v) /\ ~MatchesEd(v) /\ ~InFixedSet(v))
                       => Occurs(v, categories["irregular_verbs"])

\* C4 (amended): the fixed sets come first. A verb whose lower-case form is in
\* the linking set is in linking_verbs; otherwise one whose lower-case form is
\* in the helping set is in helping_verbs; otherwise one ending in "ing" is in
\* action_verbs; otherwise one ending in "ed" and longer than 2 is in
\* regular_verbs; every other verb is in irregular_verbs.
FixedSetsFirst ==
    kpc = "done" =>
        \A i \in 1..Len(verb_list) :
            LET v == verb_list[i]
            IN  /\ Lower(v) \in linking_verbs => Occurs(v, categories["linking_verbs"])
                /\ (Lower(v) \notin linking_verbs /\ Lower(v) \in helping_verbs)
                       => Occurs(v, categories["helping_verbs"])
                /\ (~InFixedSet(v) /\ MatchesIng(v)) => Occurs(v, categories["action_verbs"])
                /\ (~InFixedSet(v) /\ ~MatchesIng(v) /\ MatchesEd(v))
                       => Occurs(v, categories["regular_verbs"])
                /\ (~InFixedSet(v) /\ ~MatchesIng(v) /\ ~MatchesEd(v))
                       => Occurs(v, categories["irregular_verbs"])

\* "being" was categorised, and is a linking verb, beside a verb in "-ing"
\* that is an action verb
FixedSetsFirstWitness ==
    /\ kpc = "done"
    /\ Occurs(<<"b","e","i","n","g">>, verb_list)
    /\ Occurs(<<"b","e","i","n","g">>, categories["linking_verbs"])
    /\ Occurs(<<"r","u","n","n","i","n","g">>, categories["action_verbs"])

----------------------------------------------------------------------------
(* C5 *)

HasSpaceRun(s) == \E i \in 1..(Len(s) - 1) : IsSpace(s[i]) /\ IsSpace(s[i + 1])

HasEdgeSpace(s) == s # <<>> /\ (IsSpace(s[1]) \/ IsSpace(s[Len(s)]))

\* C5: clean_text is idempotent: cleaning the cleaned text gives the cleaned
\* text again, and a cleaned text has no whitespace run, no leading or
\* trailing whitespace and no character outside the allow-list.
CleanIdempotent ==
    /\ cpc = "recleaned" => recleaned = cleaned
    /\ cpc # "raw" => /\ ~HasSpaceRun(cleaned)
                      /\ ~HasEdgeSpace(cleaned)
                      /\ \A i \in 1..Len(cleaned) : Allowed(cleaned[i])

\* a removed character stood between two spaces, and the text was cleaned twice
CleanWitness ==
    /\ cpc = "recleaned"
    /\ raw = <<"a", " ", "#", " ", "a">>
    /\ cleaned = <<"a", " ", "a">>

----------------------------------------------------------------------------
(* C6 *)

StrippedLen(t) == Len(Strip(t))

\* C6: with preprocess=True the best method is the first, in the order
\* simple_threshold, adaptive_threshold, otsu_threshold, gaussian_otsu, of the
\* methods whose stripped text is longest, and the text returned is the
\* unstripped text recorded for it in all_methods.
BestIsFirstLongest ==
    (pc = "done" /\ preprocess) =>
        LET all == ret_details.all_methods
        IN  /\ [j \in 1..Len(all) |-> all[j].method] = Methods
            /\ \E b \in 1..Len(all) :
                   /\ ret_details.best_method = all[b].method
                   /\ ret_text = all[b].text
                   /\ \A j \in 1..Len(all) : StrippedLen(all[j].text) <= StrippedLen(all[b].text)
                   /\ \A j \in 1..(b - 1) : StrippedLen(all[j].text) < StrippedLen(all[b].text)

\* the second and a later method tie for the longest stripped text, and the
\* second is the best method
BestIsFirstLongestWitness ==
    /\ pc = "done"
    /\ preprocess
    /\ ret_details.best_method = "adaptive_threshold"
    /\ ret_details.all_methods[4].length = ret_details.all_methods[2].length
    /\ ret_details.all_methods[1].text = <<" ">>

----------------------------------------------------------------------------
(* C7 *)

\* C7: a failure (an unreadable image, an OCR call that raises) ends the call
\* in the error state with the error that was raised, unchanged; nothing is
\* returned, although earlier variants succeeded; no method is tried twice;
\* the failed OCR call is the last one made; an unreadable image is an error
\* before any OCR call.
FailurePropagates ==
    /\ (orig_error # "none") <=> (pc = "error")
    /\ pc = "error" =>
           /\ raised = orig_error
           /\ ret_text = <<>>
           /\ ret_details = NoDetails
    /\ pc = "done" => raised = "none"
    /\ \A i, j \in 1..Len(attempts) : i # j => attempts[i].method # attempts[j].method
    /\ (pc = "error" /\ orig_error = "TesseractError" /\ preprocess) =>
           Len(attempts) = Len(extraction_results) + 1
    /\ (pc = "error" /\ orig_error \in {"ValueError", "OpenError"}) => attempts = <<>>
    /\ (pc = "error" /\ preprocess /\ attempts = <<>>) => orig_error = "ValueError"

\* the third variant's OCR call failed after two variants had succeeded
FailurePropagatesWitness ==
    /\ pc = "error"
    /\ preprocess
    /\ raised = "TesseractError"
    /\ Len(extraction_results) = 2
    /\ Len(attempts) = 3

----------------------------------------------------------------------------
(* C8 *)

NoVerbTag(words) == \A i \in 1..Len(words) : pos_tag(words)[i].tag # "VERB"

\* no token of the text is tagged as a verb, in the tagging of the whole text
\* or in the tagging of a sentence
NoVerbTagged ==
    /\ NoVerbTag(word_tokenize(text))
    /\ \A i \in 1..Len(sent_tokenize(text)) : NoVerbTag(word_tokenize(sent_tokenize(text)[i]))

ZeroVerbs ==
    /\ results.sentences_with_verbs = 0
    /\ results.total_verb_instances = 0
    /\ results.total_unique_verbs = 0
    /\ results.verb_counts = <<>>
    /\ results.verbs = <<>>

\* C8 as stated: for a text with no token tagged as a verb, extract_verbs
\* returns zero counts and get_verb_categories on its verb list returns an
\* empty mapping.
ZeroVerbsEmptyMapping ==
    (Analyzed /\ NoVerbTagged) =>
        /\ ZeroVerbs
        /\ kpc = "done" => DOMAIN categories = {}

\* C8 (amended): for a text with no token tagged as a verb, extract_verbs
\* returns zero counts and get_verb_categories on its verb list returns the
\* mapping of the five category names, each to an empty list.
ZeroVerbsEmptyLists ==
    (Analyzed /\ NoVerbTagged) =>
        /\ ZeroVerbs
        /\ kpc = "done" =>
               /\ DOMAIN categories = CategoryNames
               /\ \A c \in CategoryNames : categories[c] = <<>>

\* a text of punctuation only went through extract_verbs and get_verb_categories
ZeroVerbsWitness ==
    /\ vpc = "categorized"
    /\ kpc = "done"
    /\ text = <<Period, Period>>
    /\ results.total_sentences = 2

----------------------------------------------------------------------------
(* C9 *)

\* C9: the OCR executable used by a call on a TextExtractor is not affected
\* by building another TextExtractor in between: every OCR call made for an
\* object built with an override runs the executable of that override.
CallUsesOwnCommand ==
    (caller # "none" /\ constructed[caller] \in OverrideCmds) =>
        \A k \in 1..Len(attempts) : attempts[k].cmd = constructed[caller]

----------------------------------------------------------------------------
(* C10 *)

\* C10: save_results and create_visualization run to completion on every
\* record extract_verbs returns: three paths are returned, four panels are
\* drawn, nothing is raised.
PipelineCompletes ==
    /\ vpc \in {"saved", "visualized", "failed"} =>
           (saved.json # "" /\ saved.txt # "" /\ saved.csv # "")
    /\ vpc \in {"visualized", "failed"} => (viz_error = "none" /\ Len(figure) = 4)

====
